---- MODULE Spec2Model ----
(***************************************************************************)
(* Newton's Third Law Lab: the contact-force simulation (hammer and nail)  *)
(* and the gravity simulation (Earth and Moon) as state machines.          *)
(*                                                                         *)
(* Each React component is one record: its useState values ("hooks"), its  *)
(* refs, its pending animation frame / timer and the arrows drawn by the   *)
(* last call of draw.  An action is one event handler (a frame callback, a *)
(* click, a timer, a ResizeObserver callback) together with the re-renders *)
(* and effect runs React performs before the next event: the state updates *)
(* a handler queues are applied as one batch, the component re-renders,    *)
(* the effects whose dependencies changed run in declaration order, and    *)
(* this repeats until no dependency changes.                               *)
(*                                                                         *)
(* Canvas coordinates of the contact scene are exact rationals, held as    *)
(* integers in units of 1/U pixel.  Gravity forces and arrow lengths are   *)
(* exact rationals [num, den]; orbit angles are in AngleUnit-ths of a      *)
(* radian.                                                                 *)
(***************************************************************************)
EXTENDS Integers, Sequences, FiniteSets, TLC

Min(a, b) == IF a <= b THEN a ELSE b
Max(a, b) == IF a >= b THEN a ELSE b
Abs(a) == IF a >= 0 THEN a ELSE 0 - a

\* Math.round of the rational num/den (den > 0): nearest integer, ties up.
MathRound(num, den) == (2 * num + den) \div (2 * den)

\* Math.floor of a length given in half pixels.
MathFloor(half) == half \div 2

\* One pixel is U units: every coefficient of draw is a whole number of units.
U == 18000

\* ---------------------------------------------------------------- inputs
\* Slider positions tried for mass and velocity (the sliders range 1..10).
Masses == {1, 5, 10}
Velocities == {1, 5}

\* Content boxes the ResizeObserver reports, in half pixels <<width, height>>:
\* 960.5 x 600.5 and 300 x 250.5 (below the minimum of 320).
ObservedBoxes == {<<1921, 1201>>, <<600, 501>>}

\* Cap of stateRef.impactFrames: diagram/explore round trips can raise it
\* without limit, so the actions stop at this value.
MaxImpactFrames == 34

\* Slider positions tried for the two masses (1..10) and the distance
\* (120..350, step 5).
GravityMasses == {1, 3, 6}
Distances == {120, 220, 350}

\* Number of user commands (clicks, slider moves, resizes, tab switches) in
\* one behaviour; frames and timers are not counted.
MaxCommands == 5

\* Number of draw calls of the gravity simulation that advance timeRef.
MaxOrbitTicks == 8

VARIABLES tab, contact, gravity, phaseLog, commands

vars == <<tab, contact, gravity, phaseLog, commands>>

\* ------------------------------------------------------- useElementSize
InitialSize == [width |-> 960, height |-> 600]

\* Mutant of useElementSize: the minimum of 320 is not applied.
useElementSizeUnclamped(box) ==
  [width |-> MathFloor(box[1]), height |-> MathFloor(box[2])]

useElementSize(box) ==
  [width |-> Max(320, MathFloor(box[1])), height |-> Max(320, MathFloor(box[2]))]

\* ------------------------------------------------- ContactForceSimulation
ContactHooks ==
  [mass |-> 5, velocity |-> 5, isStriking |-> FALSE, isHoldingContact |-> FALSE,
   impact |-> [force |-> 0, active |-> FALSE], viewMode |-> "diagram",
   size |-> InitialSize]

ResetStateRef ==
  [phase |-> "idle", hammerY |-> 0, nailY |-> 0, impactFrames |-> 0,
   targetNailY |-> 0, ready |-> FALSE]

NoArrows == [drawn |-> FALSE]

\* Mutant of calculateForce: the speed is left out of the product.
calculateForceMassOnly(m, v) == MathRound(m * 22, 1)

calculateForce(m, v) == MathRound(m * v * 22, 1)

\* Mutant of resetQueued: reset() forgets setIsStriking(false).
resetQueuedStillStriking(q) ==
  [q EXCEPT !.impact = [force |-> 0, active |-> FALSE],
            !.isHoldingContact = FALSE]

\* Mutant of resetQueued: reset() leaves isHoldingContact alone.
resetQueuedStillHolding(q) ==
  [q EXCEPT !.impact = [force |-> 0, active |-> FALSE],
            !.isStriking = FALSE]

\* reset(): the ref is replaced at once, the three setters are queued on q.
resetQueued(q) ==
  [q EXCEPT !.impact = [force |-> 0, active |-> FALSE],
            !.isStriking = FALSE,
            !.isHoldingContact = FALSE]

\* The lengths draw derives from the frame height, in units.
Scale(height) == (height * U) \div 600
GroundY(height) == (height * 72 * U) \div 100
NailHeight(height) == 70 * Scale(height)
HammerHeadHeight(height) == 40 * Scale(height)
RestY(height) == GroundY(height) - 200 * Scale(height)
DiagramY(height) == GroundY(height) - 170 * Scale(height)

\* draw, first part: the geometry is initialised when the ref is not ready.
DrawReady(cl, st) ==
  IF ~st.ready
  THEN [st EXCEPT !.hammerY = GroundY(cl.size.height) - 200 * Scale(cl.size.height),
                  !.nailY = GroundY(cl.size.height) - NailHeight(cl.size.height),
                  !.ready = TRUE]
  ELSE st

\* Mutant of DrawDiagram: the hammer is not pinned at the canonical pose.
DrawDiagramUnpinned(cl, q, st) ==
  [st |-> [st EXCEPT !.nailY = GroundY(cl.size.height) - NailHeight(cl.size.height),
                     !.phase = "contact"],
   q |-> IF ~cl.impact.active
         THEN [q EXCEPT !.impact = [force |-> calculateForce(cl.mass, cl.velocity),
                                    active |-> TRUE]]
         ELSE q]

\* draw in diagram mode: the canonical pose, phase contact, impact active.
\* cl: the hook values captured by the closure; q: the hook values with the
\* updates queued so far; st: the ref.  Result: the ref and the queue.
DrawDiagram(cl, q, st) ==
  [st |-> [st EXCEPT !.hammerY = GroundY(cl.size.height) - 170 * Scale(cl.size.height),
                     !.nailY = GroundY(cl.size.height) - NailHeight(cl.size.height),
                     !.phase = "contact"],
   q |-> IF ~cl.impact.active
         THEN [q EXCEPT !.impact = [force |-> calculateForce(cl.mass, cl.velocity),
                                    active |-> TRUE]]
         ELSE q]

\* Mutant of DrawDown: at the nail the hammer bounces back at once, the
\* contact phase is skipped.
DrawDownBounces(cl, q, st) ==
  LET scale == Scale(cl.size.height)
      targetHammerY == st.nailY - (HammerHeadHeight(cl.size.height) * 6) \div 10
      step == (cl.velocity * 26 * scale) \div 10
  IN IF st.hammerY + step >= targetHammerY
     THEN [st |-> [st EXCEPT !.hammerY = targetHammerY, !.phase = "up"], q |-> q]
     ELSE [st |-> [st EXCEPT !.hammerY = @ + step], q |-> q]

\* Mutant of DrawDown: the hold target is not capped above the ground.
DrawDownUncapped(cl, q, st) ==
  LET scale == Scale(cl.size.height)
      targetHammerY == st.nailY - (HammerHeadHeight(cl.size.height) * 6) \div 10
      step == (cl.velocity * 26 * scale) \div 10
      forceVal == calculateForce(cl.mass, cl.velocity)
      depth == Min(32 * scale, (forceVal * U) \div 55)
  IN IF st.hammerY + step >= targetHammerY
     THEN [st |-> [st EXCEPT !.hammerY = targetHammerY,
                             !.phase = "contact",
                             !.impactFrames = 0,
                             !.targetNailY = st.nailY + depth],
           q |-> [q EXCEPT !.impact = [force |-> forceVal, active |-> TRUE],
                           !.isHoldingContact = TRUE]]
     ELSE [st |-> [st EXCEPT !.hammerY = @ + step], q |-> q]

\* draw in explore mode, phase down: the hammer descends by step and enters
\* contact at targetHammerY.
DrawDown(cl, q, st) ==
  LET scale == Scale(cl.size.height)
      groundY == GroundY(cl.size.height)
      targetHammerY == st.nailY - (HammerHeadHeight(cl.size.height) * 6) \div 10
      step == (cl.velocity * 26 * scale) \div 10
      forceVal == calculateForce(cl.mass, cl.velocity)
      depth == Min(32 * scale, (forceVal * U) \div 55)
  IN IF st.hammerY + step >= targetHammerY
     THEN [st |-> [st EXCEPT !.hammerY = targetHammerY,
                             !.phase = "contact",
                             !.impactFrames = 0,
                             !.targetNailY = Min(groundY - 10 * scale, st.nailY + depth)],
           q |-> [q EXCEPT !.impact = [force |-> forceVal, active |-> TRUE],
                           !.isHoldingContact = TRUE]]
     ELSE [st |-> [st EXCEPT !.hammerY = @ + step], q |-> q]

\* Mutant of DrawContact: after 32 frames the strike ends at once, the rising
\* phase is skipped.
DrawContactNoRise(cl, q, st) ==
  LET scale == Scale(cl.size.height)
      sinks == st.nailY < st.targetNailY
      over == st.impactFrames + 1 > 32
  IN IF ~cl.isHoldingContact
     THEN [st |-> [st EXCEPT !.impactFrames = @ + 1,
                             !.nailY = IF sinks THEN @ + (15 * scale) \div 10 ELSE @,
                             !.hammerY = IF over THEN RestY(cl.size.height)
                                         ELSE IF sinks THEN @ + (15 * scale) \div 10 ELSE @,
                             !.phase = IF over THEN "idle" ELSE @],
           q |-> IF over
                 THEN [q EXCEPT !.impact.active = FALSE, !.isStriking = FALSE]
                 ELSE q]
     ELSE [st |-> st, q |-> q]

\* Mutant of DrawContact: the hammer rises but impact stays active.
DrawContactStaysActive(cl, q, st) ==
  LET scale == Scale(cl.size.height)
      sinks == st.nailY < st.targetNailY
      over == st.impactFrames + 1 > 32
  IN IF ~cl.isHoldingContact
     THEN [st |-> [st EXCEPT !.impactFrames = @ + 1,
                             !.nailY = IF sinks THEN @ + (15 * scale) \div 10 ELSE @,
                             !.hammerY = IF sinks THEN @ + (15 * scale) \div 10 ELSE @,
                             !.phase = IF over THEN "up" ELSE @],
           q |-> q]
     ELSE [st |-> st, q |-> q]

\* Mutant of DrawContact: the hold does not stop the impact frames.
DrawContactIgnoresHold(cl, q, st) ==
  LET scale == Scale(cl.size.height)
      sinks == st.nailY < st.targetNailY
      over == st.impactFrames + 1 > 32
  IN [st |-> [st EXCEPT !.impactFrames = @ + 1,
                        !.nailY = IF sinks THEN @ + (15 * scale) \div 10 ELSE @,
                        !.hammerY = IF sinks THEN @ + (15 * scale) \div 10 ELSE @,
                        !.phase = IF over THEN "up" ELSE @],
      q |-> IF over THEN [q EXCEPT !.impact.active = FALSE] ELSE q]

\* draw in explore mode, phase contact: nothing while holding; otherwise the
\* nail sinks and after 32 frames the hammer rises.
DrawContact(cl, q, st) ==
  LET scale == Scale(cl.size.height)
      sinks == st.nailY < st.targetNailY
      over == st.impactFrames + 1 > 32
  IN IF ~cl.isHoldingContact
     THEN [st |-> [st EXCEPT !.impactFrames = @ + 1,
                             !.nailY = IF sinks THEN @ + (15 * scale) \div 10 ELSE @,
                             !.hammerY = IF sinks THEN @ + (15 * scale) \div 10 ELSE @,
                             !.phase = IF over THEN "up" ELSE @],
           q |-> IF over THEN [q EXCEPT !.impact.active = FALSE] ELSE q]
     ELSE [st |-> st, q |-> q]

\* Mutant of DrawUp: the hammer stops at rest but the strike is never ended.
DrawUpStaysUp(cl, q, st) ==
  LET scale == Scale(cl.size.height)
      groundY == GroundY(cl.size.height)
  IN IF st.hammerY - 4 * scale <= groundY - 200 * scale
     THEN [st |-> [st EXCEPT !.hammerY = groundY - 200 * scale], q |-> q]
     ELSE [st |-> [st EXCEPT !.hammerY = @ - 4 * scale], q |-> q]

\* Mutant of DrawUp: the last step of the rise is not clamped at rest.
DrawUpOvershoots(cl, q, st) ==
  LET scale == Scale(cl.size.height)
      groundY == GroundY(cl.size.height)
  IN IF st.hammerY - 4 * scale <= groundY - 200 * scale
     THEN [st |-> [st EXCEPT !.hammerY = @ - 4 * scale, !.phase = "idle"],
           q |-> [q EXCEPT !.isStriking = FALSE]]
     ELSE [st |-> [st EXCEPT !.hammerY = @ - 4 * scale], q |-> q]

\* draw in explore mode, phase up: the hammer rises to its rest position.
DrawUp(cl, q, st) ==
  LET scale == Scale(cl.size.height)
      groundY == GroundY(cl.size.height)
  IN IF st.hammerY - 4 * scale <= groundY - 200 * scale
     THEN [st |-> [st EXCEPT !.hammerY = groundY - 200 * scale, !.phase = "idle"],
           q |-> [q EXCEPT !.isStriking = FALSE]]
     ELSE [st |-> [st EXCEPT !.hammerY = @ - 4 * scale], q |-> q]

\* draw, second part: the diagram override or one step of the strike.
DrawPhase(cl, q, st) ==
  IF cl.viewMode = "diagram" THEN DrawDiagram(cl, q, st)
  ELSE IF st.phase = "down" THEN DrawDown(cl, q, st)
  ELSE IF st.phase = "contact" THEN DrawContact(cl, q, st)
  ELSE IF st.phase = "up" THEN DrawUp(cl, q, st)
  ELSE [st |-> st, q |-> q]

\* draw, last part: the force pair, two calls of drawArrow while phase is
\* contact.  F_H is drawn first, F_N second.
DrawForces(cl, st) ==
  LET scale == Scale(cl.size.height)
      nailX == (cl.size.width * U) \div 2
      isDiagram == cl.viewMode = "diagram"
      forceMag == calculateForce(cl.mass, cl.velocity)
      arrowLength == Min(140 * scale, (forceMag * U) \div 9)
      arrowX == nailX - 45 * scale
  IN IF st.phase = "contact"
     THEN [drawn |-> TRUE,
           FH |-> [fromX |-> arrowX, fromY |-> st.nailY + 10 * scale,
                   toX |-> arrowX, toY |-> st.nailY + arrowLength,
                   label |-> IF isDiagram THEN "" ELSE "F_H"],
           FN |-> [fromX |-> arrowX, fromY |-> st.nailY + 10 * scale,
                   toX |-> arrowX, toY |-> st.nailY - arrowLength + 10 * scale,
                   label |-> IF isDiagram THEN "" ELSE "F_N"]]
     ELSE NoArrows

\* What one call of draw leaves behind in the component b.
Drawn(b, cl, moved) ==
  [b |-> [b EXCEPT !.stateRef = moved.st, !.canvas = DrawForces(cl, moved.st)],
   q |-> moved.q]

\* draw(ctx) of the contact simulation.
ContactDraw(b, cl, q) == Drawn(b, cl, DrawPhase(cl, q, DrawReady(cl, b.stateRef)))

\* render() of the loop effect: draw, then request the next frame.
ContactRender(b, cl, q) ==
  ContactDraw([b EXCEPT !.animationRef = @ + 1], cl, q)

\* A re-render commits the queued hook values q.  p records the component
\* with the new hooks, the updates queued from now on, and which effect
\* dependencies changed: size.width / size.height (reset effect),
\* isHoldingContact (hold-timer effect) and draw (loop effect), whose own
\* dependencies are calculateForce, size, velocity, viewMode, impact.active
\* and isHoldingContact.  newSize: setSize stored a new size object.
Rerender(b, q, newSize) ==
  [b |-> [b EXCEPT !.hooks = q],
   q |-> q,
   sizeDep |-> b.hooks.size # q.size,
   holdDep |-> b.hooks.isHoldingContact # q.isHoldingContact,
   drawDep |-> \/ b.hooks.mass # q.mass
               \/ b.hooks.velocity # q.velocity
               \/ b.hooks.viewMode # q.viewMode
               \/ b.hooks.impact.active # q.impact.active
               \/ b.hooks.isHoldingContact # q.isHoldingContact
               \/ newSize]

\* Mutant of EffectCleanups: the hold-timer effect returns no cleanup.
EffectCleanupsKeepTimer(p) ==
  [p EXCEPT !.b.animationRef = IF p.drawDep THEN Max(0, @ - 1) ELSE @]

\* Mutant of EffectCleanups: the loop effect returns no cleanup.
EffectCleanupsKeepFrame(p) ==
  [p EXCEPT !.b.holdTimer = IF p.holdDep THEN Max(0, @ - 1) ELSE @]

\* The cleanups of the effects that re-run: clearTimeout, cancelAnimationFrame.
EffectCleanups(p) ==
  [p EXCEPT !.b.holdTimer = IF p.holdDep THEN Max(0, @ - 1) ELSE @,
            !.b.animationRef = IF p.drawDep THEN Max(0, @ - 1) ELSE @]

\* useEffect(() => reset(), [size.width, size.height, reset])
ResetEffect(p) ==
  IF p.sizeDep
  THEN [p EXCEPT !.b.stateRef = ResetStateRef, !.q = resetQueued(@)]
  ELSE p

\* Mutant of HoldEffect: the timer is set without the isHoldingContact test.
HoldEffectAlways(p) ==
  IF p.holdDep
  THEN [p EXCEPT !.b.holdTimer = @ + 1]
  ELSE p

\* The hold-timer effect: window.setTimeout(..., 3000) while holding.
HoldEffect(p) ==
  IF p.holdDep /\ p.b.hooks.isHoldingContact
  THEN [p EXCEPT !.b.holdTimer = @ + 1]
  ELSE p

\* The loop effect: render() is called at once with the new draw.
LoopEffect(p) ==
  IF p.drawDep THEN ContactRender(p.b, p.b.hooks, p.q) ELSE [b |-> p.b, q |-> p.q]

Changed(p) == p.sizeDep \/ p.holdDep \/ p.drawDep

\* The updates queued by the effects are committed by a further re-render,
\* until no dependency changes any more.
RECURSIVE Settle(_)
Recommit(r) ==
  CHOOSE done \in {Settle(p) : p \in {Rerender(x.b, x.q, FALSE) : x \in {r}}} : TRUE
Settle(p) ==
  IF Changed(p)
  THEN Recommit(LoopEffect(HoldEffect(ResetEffect(EffectCleanups(p)))))
  ELSE p.b

\* A commit of the component b with the queued hook values q.  (The set
\* bindings here and in Recommit fix the value of each intermediate render
\* before the next one is computed from it.)
ContactCommit(b, q, newSize) ==
  CHOOSE done \in {Settle(p) : p \in {Rerender(x, y, newSize) : x \in {b}, y \in {q}}} : TRUE

\* Mounting: the initial render, then the three effects run once.
ContactUnmounted ==
  [hooks |-> ContactHooks, stateRef |-> ResetStateRef, animationRef |-> 0,
   holdTimer |-> 0, canvas |-> NoArrows]

ContactMount ==
  Recommit(ContactRender(ContactUnmounted, ContactHooks, resetQueued(ContactHooks)))

\* The callback of requestAnimationFrame: the pending request is consumed,
\* render() runs, and React commits what draw queued.
ContactFrame(b) ==
  Recommit(ContactRender([b EXCEPT !.animationRef = @ - 1], b.hooks, b.hooks))

\* reset() called from the Reset button.
ContactReset(b) ==
  ContactCommit([b EXCEPT !.stateRef = ResetStateRef], resetQueued(b.hooks), FALSE)

\* The ResizeObserver callback: setSize with a new size object.
ContactResized(b, box) ==
  ContactCommit(b, [b.hooks EXCEPT !.size = useElementSize(box)], TRUE)

\* Unmounting runs the cleanups of the hold-timer effect and of the loop
\* effect; the state is discarded.
ContactGone(c) ==
  [ContactUnmounted EXCEPT !.animationRef = c.animationRef, !.holdTimer = c.holdTimer]

\* Mutant of ContactUnmount: unmounting runs no effect cleanup.
ContactUnmountNoCleanup(b) == ContactGone(b)

ContactUnmount(b) ==
  ContactGone(EffectCleanups([b |-> b, q |-> b.hooks, sizeDep |-> FALSE,
                              holdDep |-> TRUE, drawDep |-> TRUE]).b)

\* ------------------------------------------------------------ rationals
RECURSIVE GCD(_, _)
GCD(a, b) == IF b = 0 THEN a ELSE GCD(b, a % b)

\* The rational n/d (d > 0) in lowest terms.
Lowest(n, d, g) == [num |-> n \div g, den |-> d \div g]
Rat(n, d) == Lowest(n, d, GCD(Abs(n), d))

RatLE(x, y) == x.num * y.den <= y.num * x.den
RatLT(x, y) == x.num * y.den < y.num * x.den
RatMax(x, y) == IF RatLE(y, x) THEN x ELSE y
RatMin(x, y) == IF RatLE(x, y) THEN x ELSE y
RatAdd(x, y) == Rat(x.num * y.den + y.num * x.den, x.den * y.den)
RatSub(x, y) == Rat(x.num * y.den - y.num * x.den, x.den * y.den)
RatMul(x, y) == Rat(x.num * y.num, x.den * y.den)
RatDiv(x, k) == Rat(x.num, x.den * k)

\* ------------------------------------------------------ GravitySimulation
GravityHooks ==
  [earthMass |-> 6, moonMass |-> 3, distance |-> 220, isPaused |-> FALSE,
   viewMode |-> "diagram", showAcceleration |-> FALSE, showOrbitPath |-> TRUE,
   highlightPair |-> FALSE, size |-> InitialSize]

G == 24000

\* Mutant of calculateGravity: the force is rounded to a whole number.
calculateGravityRounded(earthMass, moonMass, distance) ==
  RatMax(Rat(1, 2), Rat(MathRound(G * earthMass * moonMass, distance * distance), 1))

calculateGravity(earthMass, moonMass, distance) ==
  RatMax(Rat(1, 2), Rat(G * earthMass * moonMass, distance * distance))

\* Angles are held in AngleUnit-ths of a radian.
AngleUnit == 1000000000

\* 0.003 + (260 / distance) * 0.002
angularSpeed(distance) ==
  3 * (AngleUnit \div 1000) + (260 * (2 * (AngleUnit \div 1000))) \div distance

\* A point or a displacement of the canvas relative to (centerX, centerY):
\* r * (cos a, sin a).  The centre itself has r = 0.
Polar(r, a) == [r |-> r, a |-> IF r = 0 THEN 0 ELSE a]
Centre == Polar(0, 0)

\* Mutant of Displacement: the difference is taken the wrong way round.
DisplacementReversed(from, to) ==
  IF from = Centre THEN Polar(0 - to.r, to.a) ELSE from

\* The displacement (to.x - from.x, to.y - from.y) when one end is the centre.
Displacement(from, to) ==
  IF from = Centre THEN to ELSE Polar(0 - from.r, from.a)

\* Math.atan2(v.y, v.x): the direction a + half * pi, half in {0, 1};
\* Math.atan2(0, 0) is 0.
atan2(v) == [a |-> v.a, half |-> IF v.r < 0 THEN 1 ELSE 0]

\* drawArrow from `from` to from + (cos dir, sin dir) * len.
GravityArrow(from, dir, len, label) ==
  [from |-> from, dir |-> dir, len |-> len, label |-> label]

EarthRadius(earthMass) == Rat(260 + earthMass * 26, 10)
MoonRadius(moonMass) == Rat(120 + moonMass * 16, 10)

\* Mutant of ArrowLength: the arrows shrink while the accelerations show.
ArrowLengthWithAccel(cl, forceMag) ==
  RatMin(RatSub(RatSub(RatSub(Rat(cl.distance, 1), EarthRadius(cl.earthMass)),
                       MoonRadius(cl.moonMass)),
                Rat(6, 1)),
         IF cl.showAcceleration
         THEN Rat(20, 1)
         ELSE RatAdd(Rat(40, 1), RatMul(forceMag, Rat(14, 10))))

\* Mutant of ArrowLength: the arrow is not limited to the gap between the
\* two discs.
ArrowLengthUncapped(cl, forceMag) ==
  RatAdd(Rat(40, 1), RatMul(forceMag, Rat(14, 10)))

\* Math.min(distance - earthRadius - moonRadius - 6, 40 + forceMag * 1.4)
ArrowLength(cl, forceMag) ==
  RatMin(RatSub(RatSub(RatSub(Rat(cl.distance, 1), EarthRadius(cl.earthMass)),
                       MoonRadius(cl.moonMass)),
                Rat(6, 1)),
         RatAdd(Rat(40, 1), RatMul(forceMag, Rat(14, 10))))

\* The dashed acceleration lines: Math.min(60, accelEarth * 10) and
\* Math.min(80, accelMoon * 10).
AccelLines(cl, forceMag) ==
  IF cl.showAcceleration
  THEN <<RatMin(Rat(60, 1), RatMul(RatDiv(forceMag, cl.earthMass), Rat(10, 1))),
         RatMin(Rat(80, 1), RatMul(RatDiv(forceMag, cl.moonMass), Rat(10, 1)))>>
  ELSE <<>>

\* Mutant of GravityAdvance: the elapsed time advances in explore mode only.
GravityAdvanceTimeInExplore(b) ==
  [b EXCEPT !.angleRef = IF ~b.hooks.isPaused /\ b.hooks.viewMode = "explore"
                         THEN @ + angularSpeed(b.hooks.distance)
                         ELSE @,
            !.timeRef = IF ~b.hooks.isPaused /\ b.hooks.viewMode = "explore"
                        THEN @ + 1 ELSE @]

\* Mutant of GravityAdvance: the angle advances in diagram mode too.
GravityAdvanceAnyMode(b) ==
  [b EXCEPT !.angleRef = IF ~b.hooks.isPaused
                         THEN @ + angularSpeed(b.hooks.distance)
                         ELSE @,
            !.timeRef = IF ~b.hooks.isPaused THEN @ + 1 ELSE @]

\* Mutant of GravityAdvance: the force is fed back into the angular speed.
GravityAdvanceByForce(b) ==
  [b EXCEPT !.angleRef = IF ~b.hooks.isPaused /\ b.hooks.viewMode = "explore"
                         THEN @ + angularSpeed(b.hooks.distance)
                                + (b.hooks.earthMass * b.hooks.moonMass * 1000000)
                                    \div b.hooks.distance
                         ELSE @,
            !.timeRef = IF ~b.hooks.isPaused THEN @ + 1 ELSE @]

\* draw, first part: the two refs advance.
GravityAdvance(b) ==
  [b EXCEPT !.angleRef = IF ~b.hooks.isPaused /\ b.hooks.viewMode = "explore"
                         THEN @ + angularSpeed(b.hooks.distance)
                         ELSE @,
            !.timeRef = IF ~b.hooks.isPaused THEN @ + 1 ELSE @]

\* The Moon's centre: (centerX + distance, centerY) in the diagram,
\* centre + distance * (cos angle, sin angle) otherwise.
MoonAt(cl, angle) ==
  IF cl.viewMode = "diagram" THEN Polar(cl.distance, 0) ELSE Polar(cl.distance, angle)

\* Mutant of GravityForces: the arrow at the Earth is scaled by the mass ratio.
GravityForcesByMass(cl, moon, arrowLength, accel) ==
  [moon |-> moon,
   FE |-> GravityArrow(moon, atan2(Displacement(moon, Centre)), arrowLength,
                       IF cl.viewMode = "diagram" THEN "" ELSE "F_E"),
   FM |-> GravityArrow(Centre, atan2(Displacement(Centre, moon)),
                       RatDiv(RatMul(arrowLength, Rat(cl.moonMass, 1)), cl.earthMass),
                       IF cl.viewMode = "diagram" THEN "" ELSE "F_M"),
   orbitPath |-> cl.viewMode # "diagram" /\ cl.showOrbitPath,
   accel |-> accel]

\* draw, second part: the two force arrows and the optional decorations.
GravityForces(cl, moon, arrowLength, accel) ==
  [moon |-> moon,
   FE |-> GravityArrow(moon, atan2(Displacement(moon, Centre)), arrowLength,
                       IF cl.viewMode = "diagram" THEN "" ELSE "F_E"),
   FM |-> GravityArrow(Centre, atan2(Displacement(Centre, moon)), arrowLength,
                       IF cl.viewMode = "diagram" THEN "" ELSE "F_M"),
   orbitPath |-> cl.viewMode # "diagram" /\ cl.showOrbitPath,
   accel |-> accel]

GravityPaint(b, forceMag) ==
  [b EXCEPT !.canvas = GravityForces(b.hooks, MoonAt(b.hooks, b.angleRef),
                                     ArrowLength(b.hooks, forceMag),
                                     AccelLines(b.hooks, forceMag))]

\* draw(ctx) of the gravity simulation, with the hook values of b.
GravityDraw(b) ==
  GravityPaint(GravityAdvance(b),
               calculateGravity(b.hooks.earthMass, b.hooks.moonMass, b.hooks.distance))

\* render() of the loop effect: draw, then request the next frame.
GravityRender(b) == GravityDraw([b EXCEPT !.animationRef = @ + 1])

\* Mutant of GravityCleanup: the loop effect returns no cleanup.
GravityCleanupKeepFrame(b) == b

\* The cleanup of the loop effect: cancelAnimationFrame(animationRef.current).
GravityCleanup(b) == [b EXCEPT !.animationRef = Max(0, @ - 1)]

\* React commits the hook values q.  Every hook of the component is a
\* dependency of draw, so any change re-creates draw and re-runs the loop
\* effect: the pending frame is cancelled and render() is called at once.
GravityCommit(b, q, newSize) ==
  IF q = b.hooks /\ ~newSize
  THEN b
  ELSE GravityRender(GravityCleanup([b EXCEPT !.hooks = q]))

GravityUnmounted ==
  [hooks |-> GravityHooks, angleRef |-> 0, timeRef |-> 0, animationRef |-> 0,
   canvas |-> <<>>]

GravityMount == GravityRender(GravityUnmounted)

\* The ResizeObserver callback: setSize with a new size object.
GravityResized(b, box) ==
  GravityCommit(b, [b.hooks EXCEPT !.size = useElementSize(box)], TRUE)

\* The callback of requestAnimationFrame: render().
GravityFrame(b) == GravityRender([b EXCEPT !.animationRef = @ - 1])

\* Unmounting runs the cleanup of the loop effect; the state is discarded.
GravityGone(c) == [GravityUnmounted EXCEPT !.animationRef = c.animationRef]
GravityUnmount(b) == GravityGone(GravityCleanup(b))

\* Source names of the state of the two components.
mass == contact.hooks.mass
velocity == contact.hooks.velocity
isStriking == contact.hooks.isStriking
isHoldingContact == contact.hooks.isHoldingContact
impact == contact.hooks.impact
viewMode == contact.hooks.viewMode
size == contact.hooks.size
stateRef == contact.stateRef
earthMass == gravity.hooks.earthMass
moonMass == gravity.hooks.moonMass
distance == gravity.hooks.distance
isPaused == gravity.hooks.isPaused
angleRef == gravity.angleRef
timeRef == gravity.timeRef

\* The value shown in the force panel, and the derived accelerations.
forceValue == calculateGravity(earthMass, moonMass, distance)
\* Mutant of earthAccel: the force is divided by the other body's mass.
earthAccelByMoonMass == RatDiv(forceValue, moonMass)

earthAccel == RatDiv(forceValue, earthMass)
moonAccel == RatDiv(forceValue, moonMass)

\* ------------------------------------------------------------ history
\* The phases seen since the last strike accepted in phase idle, while no
\* other command intervened.
NoLog == [clean |-> FALSE, seq |-> <<>>]

Logged(b) ==
  IF phaseLog.clean /\ phaseLog.seq[Len(phaseLog.seq)] # b.stateRef.phase
  THEN [phaseLog EXCEPT !.seq = Append(@, b.stateRef.phase)]
  ELSE phaseLog

StrikeLog(b) ==
  IF stateRef.phase = "idle"
  THEN [clean |-> TRUE, seq |-> <<"idle", b.stateRef.phase>>]
  ELSE NoLog

\* ------------------------------------------------------------- actions
Command == commands < MaxCommands /\ commands' = commands + 1

\* The contact component becomes b.
ContactBecomes(b) ==
  /\ b.stateRef.impactFrames <= MaxImpactFrames
  /\ contact' = b

ContactEvent(b) == ContactBecomes(b) /\ phaseLog' = Logged(b)
ContactStrike(b) == ContactBecomes(b) /\ phaseLog' = StrikeLog(b)
ContactCommand(b) == ContactBecomes(b) /\ phaseLog' = NoLog

\* A requested animation frame fires: render().
ContactTick ==
  /\ contact.animationRef > 0
  /\ ContactEvent(ContactFrame(contact))
  /\ UNCHANGED <<tab, gravity, commands>>

\* The Strike button (rendered in explore mode): handleStrike.
handleStrike ==
  /\ tab = "contact"
  /\ viewMode = "explore"
  /\ IF isStriking
     THEN UNCHANGED <<contact, phaseLog>>
     ELSE ContactStrike(ContactCommit(
            [contact EXCEPT !.stateRef.phase = "down"],
            [contact.hooks EXCEPT !.isStriking = TRUE,
                                  !.isHoldingContact = FALSE,
                                  !.impact = [force |-> 0, active |-> FALSE]],
            FALSE))
  /\ Command
  /\ UNCHANGED <<tab, gravity>>

\* The Continue button (rendered while holding, in explore mode).
continueAfterContact ==
  /\ tab = "contact"
  /\ viewMode = "explore"
  /\ isHoldingContact
  /\ ContactEvent(ContactCommit(contact,
                                [contact.hooks EXCEPT !.isHoldingContact = FALSE], FALSE))
  /\ Command
  /\ UNCHANGED <<tab, gravity>>

\* The 3000 ms hold timer fires.
HoldTimerFires ==
  /\ contact.holdTimer > 0
  /\ ContactEvent(ContactCommit([contact EXCEPT !.holdTimer = @ - 1],
                                [contact.hooks EXCEPT !.isHoldingContact = FALSE], FALSE))
  /\ UNCHANGED <<tab, gravity, commands>>

\* Mutant of ResetButton: the button is not disabled while striking.
ResetButtonEnabled ==
  /\ tab = "contact"
  /\ viewMode = "explore"
  /\ ContactCommand(ContactReset(contact))
  /\ Command
  /\ UNCHANGED <<tab, gravity>>

\* The Reset button (rendered in explore mode, disabled while striking).
ResetButton ==
  /\ tab = "contact"
  /\ viewMode = "explore"
  /\ IF isStriking
     THEN UNCHANGED <<contact, phaseLog>>
     ELSE ContactCommand(ContactReset(contact))
  /\ Command
  /\ UNCHANGED <<tab, gravity>>

\* The Hammer Mass slider (rendered in explore mode).
SetMass ==
  /\ tab = "contact"
  /\ viewMode = "explore"
  /\ \E m \in Masses \ {mass} :
       ContactCommand(ContactCommit(contact, [contact.hooks EXCEPT !.mass = m], FALSE))
  /\ Command
  /\ UNCHANGED <<tab, gravity>>

\* The Swing Speed slider (rendered in explore mode).
SetVelocity ==
  /\ tab = "contact"
  /\ viewMode = "explore"
  /\ \E v \in Velocities \ {velocity} :
       ContactCommand(ContactCommit(contact, [contact.hooks EXCEPT !.velocity = v], FALSE))
  /\ Command
  /\ UNCHANGED <<tab, gravity>>

\* Mutant of SetViewMode: the switch also puts the sliders back to 5.
SetViewModeResetsSliders ==
  /\ tab = "contact"
  /\ ContactCommand(ContactCommit(
       contact,
       [contact.hooks EXCEPT !.viewMode = IF @ = "diagram" THEN "explore" ELSE "diagram",
                             !.mass = 5, !.velocity = 5],
       FALSE))
  /\ Command
  /\ UNCHANGED <<tab, gravity>>

\* The view mode switch of the contact simulation.
SetViewMode ==
  /\ tab = "contact"
  /\ ContactCommand(ContactCommit(
       contact,
       [contact.hooks EXCEPT !.viewMode = IF @ = "diagram" THEN "explore" ELSE "diagram"],
       FALSE))
  /\ Command
  /\ UNCHANGED <<tab, gravity>>

\* The ResizeObserver callback: setSize with a new size object.
ContactResize ==
  /\ tab = "contact"
  /\ \E box \in ObservedBoxes :
       ContactCommand(ContactResized(contact, box))
  /\ Command
  /\ UNCHANGED <<tab, gravity>>

\* The gravity component becomes b.
GravityBecomes(b) ==
  /\ b.timeRef <= MaxOrbitTicks
  /\ gravity' = b

\* A requested animation frame of the gravity simulation fires: render().
GravityTick ==
  /\ gravity.animationRef > 0
  /\ GravityBecomes(GravityFrame(gravity))
  /\ UNCHANGED <<tab, contact, phaseLog, commands>>

\* A control of the gravity simulation sets the hooks to q.
GravitySet(q, newSize) ==
  /\ tab = "gravity"
  /\ GravityBecomes(GravityCommit(gravity, q, newSize))
  /\ Command
  /\ UNCHANGED <<tab, contact, phaseLog>>

\* The three sliders (rendered in explore mode).
SetEarthMass ==
  /\ gravity.hooks.viewMode = "explore"
  /\ \E m \in GravityMasses \ {earthMass} :
       GravitySet([gravity.hooks EXCEPT !.earthMass = m], FALSE)

SetMoonMass ==
  /\ gravity.hooks.viewMode = "explore"
  /\ \E m \in GravityMasses \ {moonMass} :
       GravitySet([gravity.hooks EXCEPT !.moonMass = m], FALSE)

SetDistance ==
  /\ gravity.hooks.viewMode = "explore"
  /\ \E d \in Distances \ {distance} :
       GravitySet([gravity.hooks EXCEPT !.distance = d], FALSE)

\* The Pause / Resume button (rendered in explore mode).
TogglePause ==
  /\ gravity.hooks.viewMode = "explore"
  /\ GravitySet([gravity.hooks EXCEPT !.isPaused = ~@], FALSE)

\* The three switches of the explore tools.
ToggleOrbitPath ==
  /\ gravity.hooks.viewMode = "explore"
  /\ GravitySet([gravity.hooks EXCEPT !.showOrbitPath = ~@], FALSE)

ToggleAcceleration ==
  /\ gravity.hooks.viewMode = "explore"
  /\ GravitySet([gravity.hooks EXCEPT !.showAcceleration = ~@], FALSE)

ToggleHighlight ==
  /\ gravity.hooks.viewMode = "explore"
  /\ GravitySet([gravity.hooks EXCEPT !.highlightPair = ~@], FALSE)

\* The view mode switch of the gravity simulation.
GravitySetViewMode ==
  GravitySet([gravity.hooks EXCEPT
                !.viewMode = IF @ = "diagram" THEN "explore" ELSE "diagram"], FALSE)

\* The Reset button of the gravity simulation (rendered in explore mode):
\* reset() sets the three sliders and angleRef.
GravityReset ==
  /\ tab = "gravity"
  /\ gravity.hooks.viewMode = "explore"
  /\ GravityBecomes(GravityCommit([gravity EXCEPT !.angleRef = 0],
                                  [gravity.hooks EXCEPT !.earthMass = 6, !.moonMass = 3,
                                                        !.distance = 220],
                                  FALSE))
  /\ Command
  /\ UNCHANGED <<tab, contact, phaseLog>>

\* The ResizeObserver callback of the gravity simulation.
GravityResize ==
  /\ tab = "gravity"
  /\ \E box \in ObservedBoxes : GravityBecomes(GravityResized(gravity, box))
  /\ Command
  /\ UNCHANGED <<tab, contact, phaseLog>>

\* The tabs of App: the shown component unmounts (its effect cleanups run),
\* the other one mounts afresh.
SwitchTab ==
  /\ tab' = IF tab = "contact" THEN "gravity" ELSE "contact"
  /\ contact' = IF tab = "contact" THEN ContactUnmount(contact) ELSE ContactMount
  /\ gravity' = IF tab = "contact" THEN GravityMount ELSE GravityUnmount(gravity)
  /\ phaseLog' = NoLog
  /\ Command

Init ==
  /\ tab = "contact"
  /\ contact = ContactMount
  /\ gravity = GravityUnmounted
  /\ phaseLog = NoLog
  /\ commands = 0

Next ==
  \/ ContactTick
  \/ handleStrike
  \/ continueAfterContact
  \/ HoldTimerFires
  \/ ResetButton
  \/ SetMass
  \/ SetVelocity
  \/ SetViewMode
  \/ ContactResize
  \/ GravityTick
  \/ SetEarthMass
  \/ SetMoonMass
  \/ SetDistance
  \/ TogglePause
  \/ ToggleOrbitPath
  \/ ToggleAcceleration
  \/ ToggleHighlight
  \/ GravitySetViewMode
  \/ GravityReset
  \/ GravityResize
  \/ SwitchTab

Spec == Init /\ [][Next]_vars

\* ------------------------------------------------- the whole slider range
\* The gravity calculators over every slider position: the component is
\* mounted, switched to explore mode and its three sliders are set; then
\* frames, one pause or one view-mode switch follow.
RangeMasses == 1..10
RangeDistances == {5 * k : k \in 24..70}

GravityControl(b, q) == GravityCommit(b, q, FALSE)

GravityExplore(b) == GravityControl(b, [b.hooks EXCEPT !.viewMode = "explore"])
GravityEarth(b, m) == GravityControl(b, [b.hooks EXCEPT !.earthMass = m])
GravityMoon(b, m) == GravityControl(b, [b.hooks EXCEPT !.moonMass = m])
GravityDistance(b, d) == GravityControl(b, [b.hooks EXCEPT !.distance = d])

GravityAtSliders(m1, m2, d) ==
  GravityDistance(GravityMoon(GravityEarth(GravityExplore(GravityMount), m1), m2), d)

InitGravityRange ==
  /\ tab = "gravity"
  /\ contact = ContactUnmounted
  /\ phaseLog = NoLog
  /\ commands = MaxCommands - 1
  /\ \E m1 \in RangeMasses, m2 \in RangeMasses, d \in RangeDistances :
       gravity = GravityAtSliders(m1, m2, d)

NextGravityRange ==
  \/ GravityTick
  \/ TogglePause
  \/ GravitySetViewMode

SpecGravityRange == InitGravityRange /\ [][NextGravityRange]_vars

\* ------------------------------------------------- strikes in explore mode
\* The contact simulation stays mounted and in explore mode: the view mode
\* switch has been used once after the mount, and neither it nor the tab
\* is touched again; of the two sliders the swing speed, which the descent
\* reads, is moved. requestAnimationFrame keeps calling render() while
\* the component is mounted and a timeout that is set and not cleared
\* fires: frames and the hold timer are weakly fair.
ContactExplore ==
  ContactCommit(ContactMount, [ContactMount.hooks EXCEPT !.viewMode = "explore"], FALSE)

InitStrike ==
  /\ tab = "contact"
  /\ contact = ContactExplore
  /\ gravity = GravityUnmounted
  /\ phaseLog = NoLog
  /\ commands = 1

NextStrike ==
  \/ ContactTick
  \/ HoldTimerFires
  \/ handleStrike
  \/ continueAfterContact
  \/ ResetButton
  \/ SetVelocity
  \/ ContactResize

SpecStrikeFair ==
  /\ InitStrike
  /\ [][NextStrike]_vars
  /\ WF_vars(ContactTick)
  /\ WF_vars(HoldTimerFires)

\* -------------------------------------------------------------- claims
\* Length of a vertical arrow of the contact scene, in units.
ArrowLen(arrow) == Abs(arrow.toY - arrow.fromY)

\* C1: on every frame on which the contact force pair is drawn, the arrows
\* F_H and F_N have the same length.
C1_ContactArrowsEqual ==
  (tab = "contact" /\ contact.canvas.drawn) =>
    ArrowLen(contact.canvas.FH) = ArrowLen(contact.canvas.FN)

\* C2: on every frame of the gravity simulation the arrow at the Moon (F_E)
\* and the arrow at the Earth (F_M) have the same length, whatever the two
\* masses, the distance, the view mode, the pause flag and the angle.
C2_GravityArrowsEqual ==
  tab = "gravity" =>
    /\ gravity.canvas.FE.len = gravity.canvas.FM.len
    /\ gravity.canvas.FE.len.num > 0

C2_Witness ==
  /\ tab = "gravity"
  /\ earthMass = 10 /\ moonMass = 1 /\ distance = 125
  /\ gravity.hooks.viewMode = "explore" /\ isPaused
  /\ angleRef > angularSpeed(125)
  /\ gravity.canvas.FE.len = gravity.canvas.FM.len

\* C3: on every frame on which the contact force pair is drawn, F_H ends
\* below its origin (canvas y grows downward) and F_N ends above its origin.
C3_ContactArrowsOpposite ==
  (tab = "contact" /\ contact.canvas.drawn) =>
    /\ contact.canvas.FH.toY > contact.canvas.FH.fromY
    /\ contact.canvas.FN.toY < contact.canvas.FN.fromY

\* C4: on every frame F_E starts at the Moon's centre and points toward the
\* Earth, F_M starts at the Earth's centre and points toward the Moon: two
\* different origins, opposite directions along the line joining them.
C4_GravityArrowsOpposite ==
  tab = "gravity" =>
    LET c == gravity.canvas IN
    /\ c.moon.r = distance
    /\ gravity.hooks.viewMode = "diagram" => c.moon.a = 0
    /\ gravity.hooks.viewMode = "explore" /\ c.moon.a # angleRef => angleRef = 0
    /\ c.FE.from = c.moon
    /\ c.FM.from = [r |-> 0, a |-> 0]
    /\ c.FE.from # c.FM.from
    /\ c.FE.dir = [a |-> c.moon.a, half |-> 1]
    /\ c.FM.dir = [a |-> c.moon.a, half |-> 0]
    /\ c.FE.len.num > 0
    /\ c.FM.len.num > 0

C4_Witness ==
  /\ tab = "gravity"
  /\ gravity.hooks.viewMode = "explore"
  /\ gravity.canvas.moon.a > 2 * angularSpeed(350)
  /\ gravity.canvas.FE.dir.half = 1
  /\ gravity.canvas.FM.dir.half = 0

\* C5: force(mass, speed) = round(mass * speed * 22) for all mass, speed in
\* 1..10 (550 for 5, 5), and on the step on which a descending striker
\* enters contact the published impact is exactly this value for the mass
\* and velocity in effect, with active = TRUE.
C5_ForceOnContact ==
  [][/\ \A m \in 1..10, v \in 1..10 : calculateForce(m, v) = 22 * m * v
     /\ calculateForce(5, 5) = 550
     /\ (stateRef.phase = "down" /\ stateRef'.phase = "contact") =>
          impact' = [force |-> 22 * mass' * velocity', active |-> TRUE]]_vars

C5_Witness ==
  /\ tab = "contact"
  /\ viewMode = "explore"
  /\ stateRef.phase = "contact"
  /\ isHoldingContact
  /\ mass = 5 /\ velocity = 5
  /\ impact = [force |-> 550, active |-> TRUE]

\* C6: gravity(m1, m2, r) = max(0.5, 24000 * m1 * m2 / r^2): never below the
\* floor, exactly the raw value (not rounded) when that is at least 0.5,
\* exactly 0.5 otherwise, symmetric in the two masses, and about 8.93 for
\* m1 = 6, m2 = 3, r = 220.
C6_Gravity ==
  tab = "gravity" =>
    LET f == forceValue
        raw == G * earthMass * moonMass
        rr == distance * distance
    IN /\ 2 * f.num >= f.den
       /\ 2 * raw >= rr => (rr % f.den = 0 /\ f.num * (rr \div f.den) = raw)
       /\ 2 * raw < rr => f = [num |-> 1, den |-> 2]
       /\ f = calculateGravity(moonMass, earthMass, distance)
       /\ (earthMass = 6 /\ moonMass = 3 /\ distance = 220) =>
            (8925 * f.den <= 1000 * f.num /\ 1000 * f.num < 8935 * f.den)

C6_Witness ==
  /\ tab = "gravity"
  /\ earthMass = 2 /\ moonMass = 1 /\ distance = 310
  /\ forceValue = [num |-> 1, den |-> 2]
  /\ timeRef > 5

\* C7: from phase idle in explore mode with mass 5 and velocity 5, a strike
\* followed by frames (and the end of the hold) yields exactly the phases
\* idle, down, contact, up, idle; impact.active is true exactly while the
\* phase is contact, with force 550.
ExpectedPhases == <<"idle", "down", "contact", "up", "idle">>

C7_StrikeSequence ==
  (phaseLog.clean /\ mass = 5 /\ velocity = 5) =>
    /\ Len(phaseLog.seq) <= Len(ExpectedPhases)
    /\ phaseLog.seq = SubSeq(ExpectedPhases, 1, Len(phaseLog.seq))
    /\ stateRef.phase = phaseLog.seq[Len(phaseLog.seq)]
    /\ impact.active <=> stateRef.phase = "contact"
    /\ impact.active => impact.force = 550

C7_Witness ==
  /\ phaseLog.clean
  /\ phaseLog.seq = ExpectedPhases
  /\ mass = 5 /\ velocity = 5
  /\ impact = [force |-> 550, active |-> FALSE]
  /\ ~isStriking

\* C8: a strike command issued while the phase is not idle changes nothing.
C8_StrikeIgnoredUnlessIdle ==
  [][(handleStrike /\ stateRef.phase # "idle") => contact' = contact]_vars

\* C9: impact.active is true only if the phase is contact.
C9_ActiveOnlyInContact ==
  (tab = "contact" /\ impact.active) => stateRef.phase = "contact"

C9_Witness ==
  /\ tab = "contact"
  /\ commands >= 4
  /\ viewMode = "explore"
  /\ isStriking
  /\ impact.active
  /\ stateRef.phase = "contact"
  /\ stateRef.impactFrames > 0
  /\ size.height = 320

\* C10: in diagram mode, after every frame the phase is contact, the hammer
\* is at groundY - 170 * scale, the nail at groundY - nailHeight and impact
\* is active; one more frame changes nothing in the contact state.
C10_DiagramPose ==
  (tab = "contact" /\ viewMode = "diagram") =>
    LET groundY == (size.height * 72 * U) \div 100
        scale == (size.height * U) \div 600
        frame == ContactFrame(contact)
    IN /\ stateRef.phase = "contact"
       /\ stateRef.hammerY = groundY - 170 * scale
       /\ stateRef.nailY = groundY - 70 * scale
       /\ impact.active
       /\ contact.animationRef > 0
       /\ frame.stateRef = stateRef
       /\ frame.hooks = contact.hooks

C10_Witness ==
  /\ tab = "contact"
  /\ viewMode = "diagram"
  /\ isStriking
  /\ stateRef.impactFrames > 0
  /\ stateRef.phase = "contact"
  /\ stateRef.hammerY = DiagramY(size.height)
  /\ size.height = 320
  /\ impact.active

\* C11: switching the view mode, in either simulation, leaves the physical
\* parameters unchanged: mass and velocity of the contact simulation,
\* earthMass, moonMass and distance of the gravity simulation.
C11_ModeSwitchKeepsParameters ==
  [][/\ (tab = "contact" /\ tab' = "contact" /\ viewMode' # viewMode) =>
          (mass' = mass /\ velocity' = velocity)
     /\ (tab = "gravity" /\ tab' = "gravity"
           /\ gravity'.hooks.viewMode # gravity.hooks.viewMode) =>
          (earthMass' = earthMass /\ moonMass' = moonMass /\ distance' = distance)]_vars

C11_Witness ==
  /\ tab = "contact"
  /\ viewMode = "diagram"
  /\ mass = 10
  /\ velocity = 1
  /\ commands >= 4

\* C12: when the contact simulation switches from diagram to explore and no
\* strike is under way, explore mode starts from rest: phase idle, the
\* hammer at its rest position, impact inactive.
C12_ExploreResumesFromRest ==
  [][(tab = "contact" /\ tab' = "contact" /\ ~isStriking
        /\ viewMode = "diagram" /\ viewMode' = "explore") =>
       /\ stateRef'.phase = "idle"
       /\ stateRef'.hammerY = (size.height * 72 * U) \div 100 - 200 * ((size.height * U) \div 600)
       /\ ~impact'.active]_vars

\* C13: a frame of the gravity simulation does not decrease the orbit angle
\* in explore mode when not paused, and leaves it exactly unchanged in
\* diagram mode or when paused; the angle is kept all through an excursion
\* into diagram mode, and the switch back to explore continues from it (the
\* draw of that switch advances it by at most one step).
C13_AngleMonotone ==
  /\ [](tab = "gravity" =>
         LET frame == GravityFrame(gravity)
         IN /\ gravity.animationRef > 0
            /\ (gravity.hooks.viewMode = "explore" /\ ~isPaused) =>
                 frame.angleRef >= angleRef
            /\ (gravity.hooks.viewMode = "diagram" \/ isPaused) =>
                 frame.angleRef = angleRef)
  /\ [][/\ (tab = "gravity" /\ tab' = "gravity"
             /\ gravity'.hooks.viewMode = "diagram") => angleRef' = angleRef
        /\ (tab = "gravity" /\ tab' = "gravity"
             /\ gravity.hooks.viewMode = "diagram"
             /\ gravity'.hooks.viewMode = "explore") =>
               /\ angleRef' >= angleRef
               /\ angleRef' <= angleRef + 3000000 + 520000000 \div distance]_vars

C13_Witness ==
  /\ tab = "gravity"
  /\ gravity.hooks.viewMode = "diagram"
  /\ ~isPaused
  /\ angleRef > 2 * angularSpeed(350)
  /\ timeRef >= 5
  /\ gravity.canvas.moon.a = 0

\* C14: reset of the contact simulation, by the Reset button or by a change
\* of the frame size, from any phase: the reset itself leaves phase idle,
\* impactFrames 0, ready false, and queues impact {0, inactive}, isStriking
\* and isHoldingContact false; in explore mode the machine is then idle with
\* impact {0, inactive}, no strike, no hold and no hold timer, and once a
\* draw has run the rest geometry is the one of the current size.
ResetDone(b) ==
  /\ b.stateRef.phase = "idle"
  /\ b.stateRef.impactFrames = 0
  /\ b.hooks.impact = [force |-> 0, active |-> FALSE]
  /\ ~b.hooks.isStriking
  /\ ~b.hooks.isHoldingContact
  /\ b.holdTimer = 0
  /\ \/ ~b.stateRef.ready
     \/ /\ b.stateRef.hammerY = (b.hooks.size.height * 72 * U) \div 100
                                  - 200 * ((b.hooks.size.height * U) \div 600)
        /\ b.stateRef.nailY = (b.hooks.size.height * 72 * U) \div 100
                                - 70 * ((b.hooks.size.height * U) \div 600)

ResetQueues(p) ==
  /\ p.b.stateRef.phase = "idle"
  /\ p.b.stateRef.impactFrames = 0
  /\ ~p.b.stateRef.ready
  /\ p.q.impact = [force |-> 0, active |-> FALSE]
  /\ ~p.q.isStriking
  /\ ~p.q.isHoldingContact

C14_ResetToIdle ==
  tab = "contact" =>
    /\ (viewMode = "explore" /\ ~isStriking) => ResetDone(ContactReset(contact))
    /\ \A box \in ObservedBoxes :
         useElementSize(box) # size =>
           /\ ResetQueues(ResetEffect(EffectCleanups(
                 Rerender(contact, [contact.hooks EXCEPT !.size = useElementSize(box)],
                          TRUE))))
           /\ viewMode = "explore" => ResetDone(ContactResized(contact, box))

C14_Witness ==
  /\ tab = "contact"
  /\ viewMode = "explore"
  /\ stateRef.phase = "up"
  /\ isStriking
  /\ impact.force = 22
  /\ size.height = 600
  /\ ResetDone(ContactResized(contact, <<600, 501>>))
  /\ ContactResized(contact, <<600, 501>>).stateRef.hammerY = RestY(320)

\* C15: the Reset button of the gravity simulation returns the orbit to its
\* initial values whatever the prior state: angle 0, elapsed time 0, not
\* paused, earthMass 6, moonMass 3, distance 220.
C15_GravityResetCanonical ==
  [][GravityReset =>
       /\ angleRef' = 0
       /\ timeRef' = 0
       /\ ~isPaused'
       /\ earthMass' = 6 /\ moonMass' = 3 /\ distance' = 220]_vars

\* C16: in explore mode, a change of the frame size while the phase is
\* contact (holding or not) returns the machine to idle, leaves no pending
\* hold timer and clears impact; the next frame leaves ready true with the
\* hammer at groundY - 200 * scale and the nail at groundY - nailHeight of
\* the new size.
ResizedInContact(r, f) ==
  /\ r.stateRef.phase = "idle"
  /\ r.holdTimer = 0
  /\ ~r.hooks.isHoldingContact
  /\ r.hooks.impact = [force |-> 0, active |-> FALSE]
  /\ r.animationRef = 1
  /\ f.stateRef.ready
  /\ f.stateRef.phase = "idle"
  /\ f.stateRef.hammerY = (r.hooks.size.height * 72 * U) \div 100
                            - 200 * ((r.hooks.size.height * U) \div 600)
  /\ f.stateRef.nailY = (r.hooks.size.height * 72 * U) \div 100
                          - 70 * ((r.hooks.size.height * U) \div 600)

ResizedThenFrame(r) == ResizedInContact(r, ContactFrame(r))

C16_ResizeInContact ==
  (tab = "contact" /\ viewMode = "explore" /\ stateRef.phase = "contact") =>
    \A box \in ObservedBoxes :
      useElementSize(box) # size => ResizedThenFrame(ContactResized(contact, box))

C16_Witness ==
  /\ tab = "contact"
  /\ viewMode = "explore"
  /\ stateRef.phase = "contact"
  /\ isHoldingContact
  /\ contact.holdTimer = 1
  /\ size.height = 320
  /\ ResizedThenFrame(ContactResized(contact, <<1921, 1201>>))
  /\ ContactResized(contact, <<1921, 1201>>).hooks.size.height = 600

\* C17: the frame size is at least 320 x 320 in every state, 960 x 600
\* before the first observation, and (max(320, floor(w)), max(320, floor(h)))
\* after the observation of a content box (w, h) (boxes in half pixels).
Clamped(half) == IF half \div 2 >= 320 THEN half \div 2 ELSE 320

C17_FrameSizeClamped ==
  /\ size.width >= 320 /\ size.height >= 320
  /\ gravity.hooks.size.width >= 320 /\ gravity.hooks.size.height >= 320
  /\ commands = 0 => size = [width |-> 960, height |-> 600]
  /\ \A box \in ObservedBoxes :
       /\ tab = "contact" =>
            ContactResized(contact, box).hooks.size =
              [width |-> Clamped(box[1]), height |-> Clamped(box[2])]
       /\ tab = "gravity" =>
            GravityResized(gravity, box).hooks.size =
              [width |-> Clamped(box[1]), height |-> Clamped(box[2])]

C17_Witness ==
  /\ tab = "gravity"
  /\ gravity.hooks.size = [width |-> 320, height |-> 320]
  /\ GravityResized(gravity, <<1921, 1201>>).hooks.size = [width |-> 960, height |-> 600]

\* C18: each simulation has at most one pending frame request at any time,
\* after any sequence of parameter changes, mode switches, holds, resets
\* and resizes.
C18_OnePendingFrame ==
  /\ contact.animationRef <= 1
  /\ gravity.animationRef <= 1

C18_Witness ==
  /\ tab = "contact"
  /\ viewMode = "explore"
  /\ size.height = 320
  /\ isHoldingContact
  /\ contact.holdTimer = 1
  /\ commands >= 3
  /\ contact.animationRef = 1

\* C19: after a simulation unmounts (a tab switch) it has no pending frame
\* and no pending hold timer, and its state is never changed again; only
\* the simulation of the active tab has a pending frame or timer.
C19_NothingAfterUnmount ==
  /\ [](/\ tab = "contact" => gravity.animationRef = 0
        /\ tab = "gravity" => (contact.animationRef = 0 /\ contact.holdTimer = 0))
  /\ [][/\ (tab = "gravity" /\ tab' = "gravity") => contact' = contact
        /\ (tab = "contact" /\ tab' = "contact") => gravity' = gravity]_vars

C19_Witness ==
  /\ tab = "gravity"
  /\ commands >= 3
  /\ contact.animationRef = 0
  /\ contact.holdTimer = 0
  /\ gravity.animationRef = 1
  /\ timeRef >= 3

\* C20: the simulation state (hammer and nail positions, impactFrames,
\* phase, orbit angle, elapsed time) is advanced only by a scheduled frame:
\* a slider, a display toggle, the pause button, the view mode of the
\* gravity simulation, the end of the hold or a resize of the gravity
\* simulation does not advance it.
C20_OnlyFramesAdvance ==
  [][(\/ SetMass \/ SetVelocity \/ continueAfterContact \/ HoldTimerFires
      \/ SetEarthMass \/ SetMoonMass \/ SetDistance
      \/ TogglePause \/ ToggleOrbitPath \/ ToggleAcceleration \/ ToggleHighlight
      \/ GravitySetViewMode \/ GravityResize) =>
       /\ stateRef'.hammerY = stateRef.hammerY
       /\ stateRef'.nailY = stateRef.nailY
       /\ stateRef'.impactFrames = stateRef.impactFrames
       /\ stateRef'.phase = stateRef.phase
       /\ angleRef' = angleRef
       /\ timeRef' = timeRef]_vars

\* C21: a change of the frame size reinitializes the orbit state: the orbit
\* angle and the elapsed time return to 0.
C21_GravityResizeResets ==
  [][GravityResize => (angleRef' = 0 /\ timeRef' = 0)]_vars

C23_ResetIgnoredWhileStriking ==
  [][(ResetButton /\ isStriking) => (contact' = contact /\ phaseLog' = phaseLog)]_vars

C23_Witness ==
  /\ tab = "contact"
  /\ viewMode = "explore"
  /\ isStriking
  /\ isHoldingContact
  /\ stateRef.phase = "contact"
  /\ phaseLog.clean
  /\ commands >= 3
  /\ size.height = 600

\* C24: for all masses in 1..10 and distances in 120..350, earthAccel *
\* earthMass = moonAccel * moonMass = the gravity force, and when the masses
\* differ the accelerations differ, the lighter body having the larger one.
C24_Accelerations ==
  tab = "gravity" =>
    /\ earthAccel.num * earthMass * forceValue.den = forceValue.num * earthAccel.den
    /\ moonAccel.num * moonMass * forceValue.den = forceValue.num * moonAccel.den
    /\ earthMass # moonMass => earthAccel # moonAccel
    /\ earthMass < moonMass => earthAccel.num * moonAccel.den > moonAccel.num * earthAccel.den
    /\ earthMass > moonMass => earthAccel.num * moonAccel.den < moonAccel.num * earthAccel.den

C24_Witness ==
  /\ tab = "gravity"
  /\ earthMass = 10 /\ moonMass = 1 /\ distance = 235
  /\ moonAccel.num * earthAccel.den = 10 * earthAccel.num * moonAccel.den
  /\ isPaused

\* C25: toggling the orbit path, the acceleration lines or the highlight
\* changes neither the two masses, nor the distance, nor the gravity force,
\* nor the paused flag, nor the length of the two force arrows.
C25_TogglesKeepPhysics ==
  [][(ToggleOrbitPath \/ ToggleAcceleration \/ ToggleHighlight) =>
       /\ earthMass' = earthMass /\ moonMass' = moonMass /\ distance' = distance
       /\ forceValue' = forceValue
       /\ isPaused' = isPaused
       /\ gravity'.canvas.FE.len = gravity.canvas.FE.len
       /\ gravity'.canvas.FM.len = gravity.canvas.FM.len]_vars

C25_Witness ==
  /\ tab = "gravity"
  /\ gravity.hooks.viewMode = "explore"
  /\ gravity.hooks.showAcceleration
  /\ gravity.hooks.highlightPair
  /\ ~gravity.hooks.showOrbitPath
  /\ gravity.canvas.accel # <<>>
  /\ ~gravity.canvas.orbitPath

\* C26: the two arrows of the contact force pair start at two different
\* points, one on the hammer and one on the nail.
C26_ContactArrowsTwoAnchors ==
  (tab = "contact" /\ contact.canvas.drawn) =>
    <<contact.canvas.FH.fromX, contact.canvas.FH.fromY>> #
      <<contact.canvas.FN.fromX, contact.canvas.FN.fromY>>

\* C27: in explore mode a frame changes the phase only from down to contact,
\* from contact to up and from up to idle, and never moves it out of idle.
C27_PhaseOrder ==
  [][(ContactTick /\ viewMode = "explore" /\ stateRef'.phase # stateRef.phase) =>
       <<stateRef.phase, stateRef'.phase>> \in
         {<<"down", "contact">>, <<"contact", "up">>, <<"up", "idle">>}]_vars

C27_Witness ==
  /\ tab = "contact"
  /\ viewMode = "explore"
  /\ phaseLog.clean
  /\ phaseLog.seq = <<"idle", "down", "contact", "up">>
  /\ stateRef.phase = "up"
  /\ mass = 10

C29_HoldFreezesContact ==
  (/\ tab = "contact"
   /\ viewMode = "explore"
   /\ isHoldingContact
   /\ stateRef.phase = "contact") =>
     LET frame == ContactFrame(contact)
     IN /\ frame.stateRef = stateRef
        /\ frame.hooks.impact = impact
        /\ impact.active
        /\ frame.hooks.isHoldingContact
        /\ frame.canvas.drawn
        /\ frame.animationRef = 1
        /\ frame.holdTimer = 1

C29_Witness ==
  /\ tab = "contact"
  /\ viewMode = "explore"
  /\ isHoldingContact
  /\ stateRef.phase = "contact"
  /\ stateRef.impactFrames = 0
  /\ mass = 10
  /\ impact.active
  /\ ContactFrame(contact) = contact

\* C30: in explore mode, with frames that keep coming and a hold timer that
\* is allowed to expire, every accepted strike is eventually followed by
\* phase idle with the hammer back at rest and isStriking false, so that
\* the next strike is accepted.
C30_StrikeCompletes ==
  (tab = "contact" /\ viewMode = "explore" /\ isStriking) ~>
    (/\ tab = "contact"
     /\ viewMode = "explore"
     /\ ~isStriking
     /\ stateRef.phase = "idle"
     /\ stateRef.hammerY = RestY(size.height))

C30_Witness ==
  /\ tab = "contact"
  /\ viewMode = "explore"
  /\ phaseLog.clean
  /\ phaseLog.seq = ExpectedPhases
  /\ ~isStriking
  /\ stateRef.phase = "idle"
  /\ stateRef.hammerY = RestY(size.height)
  /\ commands = 2

\* C31: in explore mode, once the hold has ended the contact phase lasts
\* exactly 33 further frames: entering contact from the descent restarts
\* impactFrames at 0, impactFrames is advanced by one, by a frame outside
\* the hold and by nothing else, and the frame on which impactFrames first
\* exceeds 32 sets phase up and makes the impact inactive with the force it
\* had.
C31_ContactLasts33Frames ==
  [][(/\ tab = "contact" /\ tab' = "contact"
      /\ viewMode = "explore" /\ viewMode' = "explore") =>
       /\ (stateRef.phase = "down" /\ stateRef'.phase = "contact") =>
             stateRef'.impactFrames = 0
       /\ (/\ stateRef.phase = "contact" /\ stateRef'.phase = "contact"
           /\ stateRef'.impactFrames # stateRef.impactFrames) =>
             /\ ContactTick
             /\ ~isHoldingContact
             /\ stateRef'.impactFrames = stateRef.impactFrames + 1
       /\ (stateRef.phase = "contact" /\ stateRef'.phase = "up") =>
             /\ ContactTick
             /\ stateRef.impactFrames = 32
             /\ stateRef'.impactFrames = 33
             /\ impact' = [force |-> impact.force, active |-> FALSE]]_vars

\* C32: whenever the impact is active, the force that sizes the arrows drawn
\* on the canvas is the published force of the impact, also after the mass
\* or the speed was changed during the contact.
C32_ArrowsShowPublishedForce ==
  (tab = "contact" /\ impact.active /\ contact.canvas.drawn) =>
    /\ calculateForce(mass, velocity) = impact.force
    /\ contact.canvas.FH.toY - stateRef.nailY =
         Min(140 * Scale(size.height), (impact.force * U) \div 9)

\* C33: on entering contact from the descent the hold target is
\* min(groundY - 10*scale, nailY + min(32*scale, force/55)); during the
\* contact the nail advances towards it by 1.5*scale per frame outside the
\* hold and never passes it, and the hammer moves by the same amount.
C33_NailStopsAtTarget ==
  /\ [][(/\ tab = "contact" /\ tab' = "contact"
         /\ viewMode = "explore" /\ viewMode' = "explore"
         /\ phaseLog'.clean) =>
          /\ (stateRef.phase = "down" /\ stateRef'.phase = "contact") =>
                stateRef'.targetNailY =
                  Min(GroundY(size.height) - 10 * Scale(size.height),
                      stateRef.nailY + Min(32 * Scale(size.height),
                                           (calculateForce(mass, velocity) * U) \div 55))
          /\ (stateRef.phase = "contact" /\ stateRef'.phase \in {"contact", "up"}) =>
                /\ stateRef'.nailY - stateRef.nailY \in {0, (15 * Scale(size.height)) \div 10}
                /\ stateRef'.hammerY - stateRef.hammerY = stateRef'.nailY - stateRef.nailY]_vars
  /\ []((/\ tab = "contact"
         /\ viewMode = "explore"
         /\ phaseLog.clean
         /\ stateRef.phase \in {"contact", "up"}) =>
           stateRef.nailY <= stateRef.targetNailY)

Threshold == stateRef.nailY - (6 * HammerHeadHeight(size.height)) \div 10

C35_HammerRange ==
  (tab = "contact" /\ stateRef.ready) =>
    /\ RestY(size.height) <= stateRef.hammerY
    /\ stateRef.hammerY <= Threshold
    /\ (viewMode = "explore" /\ stateRef.phase = "down") =>
         LET frame == ContactFrame(contact).stateRef
             reach == stateRef.hammerY + (velocity * 26 * Scale(size.height)) \div 10
         IN /\ frame.hammerY = Min(reach, Threshold)
            /\ frame.phase = IF reach >= Threshold THEN "contact" ELSE "down"
    /\ (viewMode = "explore" /\ stateRef.phase = "up") =>
         LET frame == ContactFrame(contact).stateRef
             reach == stateRef.hammerY - 4 * Scale(size.height)
         IN /\ frame.hammerY = Max(reach, RestY(size.height))
            /\ frame.phase = IF reach <= RestY(size.height) THEN "idle" ELSE "up"

C35_Witness ==
  /\ tab = "contact"
  /\ viewMode = "explore"
  /\ stateRef.ready
  /\ stateRef.phase = "up"
  /\ RestY(size.height) < stateRef.hammerY
  /\ stateRef.hammerY - 4 * Scale(size.height) < RestY(size.height)
  /\ ContactFrame(contact).stateRef.hammerY = RestY(size.height)

\* C36: whenever the hold is active the phase is contact and isStriking is
\* true, so the Strike and Reset buttons are disabled for the whole hold.
C36_HoldImpliesStriking ==
  (tab = "contact" /\ isHoldingContact) =>
    (stateRef.phase = "contact" /\ isStriking)

C36_Witness ==
  /\ tab = "contact"
  /\ viewMode = "diagram"
  /\ isHoldingContact
  /\ isStriking
  /\ stateRef.phase = "contact"
  /\ contact.holdTimer = 1

\* C37: the orbit angle does not depend on the masses or on the force: in
\* every state the frame advances the angle by the same amount whatever the
\* two masses are, by 0.003 + (260/distance)*0.002 when running in explore
\* mode and by nothing otherwise, and at a larger distance the increment is
\* strictly smaller.
C37_AngleIgnoresMasses ==
  tab = "gravity" =>
    LET step == GravityFrame(gravity).angleRef - angleRef
        running == ~isPaused /\ gravity.hooks.viewMode = "explore"
    IN /\ \A m1, m2 \in GravityMasses :
            GravityFrame([gravity EXCEPT !.hooks.earthMass = m1,
                                         !.hooks.moonMass = m2]).angleRef - angleRef = step
       /\ step = IF running THEN 3000000 + 520000000 \div distance ELSE 0
       /\ \A r \in Distances :
            (running /\ distance < r) =>
              GravityFrame([gravity EXCEPT !.hooks.distance = r]).angleRef - angleRef < step
       /\ \A r \in RangeDistances :
            distance < r => angularSpeed(r) < angularSpeed(distance)

C37_Witness ==
  /\ tab = "gravity"
  /\ gravity.hooks.viewMode = "explore"
  /\ ~isPaused
  /\ earthMass = 1 /\ moonMass = 1
  /\ distance = 120
  /\ angleRef >= 2 * angularSpeed(120)
  /\ GravityFrame(gravity).angleRef
       = GravityFrame([gravity EXCEPT !.hooks.earthMass = 6, !.hooks.moonMass = 6]).angleRef

\* C38: for all masses in 1..10 and distances in 120..350 the length of the
\* two gravity arrows, min(distance - earthRadius - moonRadius - 6,
\* 40 + 1.4*gravity) with earthRadius = 26 + 2.6*m1 and moonRadius =
\* 12 + 1.6*m2, is strictly positive and at most distance - earthRadius -
\* moonRadius - 6.  GapTenths is that bound in tenths of a pixel.
GapTenths == 10 * distance - (260 + 26 * earthMass) - (120 + 16 * moonMass) - 60

C38_ArrowFitsGap ==
  tab = "gravity" =>
    /\ GapTenths >= 340
    /\ \A arrow \in {gravity.canvas.FE, gravity.canvas.FM} :
         /\ arrow.len.den > 0
         /\ arrow.len.num > 0
         /\ 10 * arrow.len.num <= GapTenths * arrow.len.den
         /\ \/ arrow.len = Rat(GapTenths, 10)
            \/ arrow.len = RatAdd(Rat(40, 1), RatMul(forceValue, Rat(14, 10)))

C38_Witness ==
  /\ tab = "gravity"
  /\ earthMass = 10 /\ moonMass = 10 /\ distance = 120
  /\ gravity.hooks.viewMode = "explore"
  /\ gravity.canvas.FE.len = Rat(34, 1)
  /\ gravity.canvas.FM.len = Rat(34, 1)
  /\ timeRef >= 1

====
